---- MODULE Spec2Model ----
(***************************************************************************)
(* Money-movement core of the finance tracker backend: the Create Transfer *)
(* and Create Transaction request handlers running concurrently against a  *)
(* shared PostgreSQL store through a connection pool.                       *)
(*                                                                         *)
(* Money is counted in whole currency units (100 stands for 100.00).       *)
(* Every await on the store is a point where another request may run; the  *)
(* steps of a handler that touch only its own connection or read tables    *)
(* that no modelled operation writes (accounts' owners, categories) are    *)
(* folded into the neighbouring step.                                      *)
(***************************************************************************)
EXTENDS Integers, Sequences, FiniteSets, TLC

(* ---------------------------- bounds ---------------------------------- *)
\* number of requests the clients issue in one behaviour
MaxRequests == 2
\* size of the connection pool: a handler holds one pooled client from
\* pool.connect() to client.release(), so this is also the number of
\* requests that can be in flight at the same time
NumConns == 2
\* number of create-transaction-from-receipt calls in one behaviour; each of
\* them may be in flight at the same time as the others
MaxReceiptCalls == 2
\* number of budget requests in one behaviour
MaxBudgetCalls == 2
\* most transaction rows in the store when the spending reports are asked for
MaxLedgerRows == 2
\* longest categories array of a Create Budget request
MaxAllocations == 2

(* ------------------------- fixed tables -------------------------------- *)
Users == 1..3
Accounts == 1..3
\* ids a request may name as an account: the existing ones and a missing one
AccountIds == 1..4
Categories == 1..3
\* ids a request may name as a category: the existing ones and a missing one
CategoryIds == 1..4
Conns == 1..NumConns

\* finance.accounts.user_id : accounts 1 and 2 belong to user 1, account 3 to
\* user 2, user 3 owns no account
AccountOwner == <<1, 1, 2>>
\* finance.accounts.is_active : account 1 has been deactivated
AccountActive == <<FALSE, TRUE, TRUE>>
\* finance.account_types.allows_negative_balance of each account's type
AllowsNegative == <<FALSE, FALSE, FALSE>>
\* finance.accounts.current_balance before the first request
InitBalance == <<100, 65, 20>>
\* finance.categories : category 1 is a system category (owner 0), 2 is user
\* 1's, 3 is user 2's
CategoryOwner == <<0, 1, 2>>

\* receipts : receipt 1 is user 1's, receipt 2 is user 2's
Receipts == 1..2
ReceiptOwner == <<1, 2>>
\* ids a request may name as a receipt: the existing ones and a missing one
ReceiptIds == 1..3
ReceiptCalls == 1..MaxReceiptCalls

Callers == {1, 2}
\* SQL NULL, a JavaScript undefined bound as a query parameter, a setting
\* that is not set
Null == 0
Amounts == {60, 96}
Fees == {0, 5}
TxnAmounts == {60}
TxnTypes == {"INCOME", "EXPENSE"}

(* --------------------------- JSON ids --------------------------------- *)
\* An id of the request body is a JSON number or a numeric string; isInt()
\* of express-validator accepts both and the value is not sanitised.
BodyIds(S) == [val : S, str : BOOLEAN]

\* dbNumber === bodyId : JavaScript strict equality of a number read from the
\* store with a value of the request body
StrictEq(n, id) == id.val = n /\ ~id.str

\* a body value bound as a query parameter: the store parses the text
SqlParam(id) == id.val

(* ----------------------------- state ---------------------------------- *)
VARIABLES
    balance,        \* committed finance.accounts.current_balance
    transfers,      \* committed rows of finance.transfers, in insertion order
    transactions,   \* committed rows of finance.transactions
    conns,          \* the pooled connections
    reqs,           \* the request in flight on each connection
    response,       \* the response sent last
    started         \* number of requests issued so far

\* receipt ingestion (routes/receipts.js and its safe-mode variant)
VARIABLES
    rcptFlag,       \* receipts.transaction_created of each receipt
    linked,         \* rows of transactions with a receipt_id, in insertion order
    rcptReqs,       \* the create-transaction-from-receipt calls, by call number
    rcptResp,       \* the response sent last by that operation
    rcptCalls       \* number of such calls issued so far

receiptVars == <<rcptFlag, linked, rcptReqs, rcptResp, rcptCalls>>

\* budgets (routes/budgets.js)
VARIABLES
    budgets,        \* rows of budgets; the row at index i has budget_id i
    budgetCats,     \* rows of budget_categories, in insertion order
    bReq,           \* the Create Budget request in flight
    bResp,          \* the response sent last by a budget operation
    bCalls          \* number of budget requests issued so far

budgetVars == <<budgets, budgetCats, bReq, bResp, bCalls>>

ledgerVars == <<balance, transfers, transactions, conns, reqs, response,
                started>>

\* reports (routes/reports.js)
VARIABLES
    hIn,            \* the metrics row the financial-health handler was given
    hOut,           \* the financial-health response
    sumResp,        \* the response sent last by Summary
    spendResp       \* the response sent last by Monthly spending or by
                    \* Category spending

reportVars == <<hIn, hOut, sumResp, spendResp>>

\* identity resolution and the session of each pooled connection
\* (middleware/auth.js, SET app.current_user_id in the handlers)
VARIABLES
    session,        \* app.current_user_id of each pooled connection
    authResp,       \* what authenticateToken did with the last request
    pending,        \* the request handed to its handler by next()
    lastQuery       \* the data query run last: its connection, the user
                    \* making the request and the connection's ambient user

sessionVars == <<session, authResp, pending, lastQuery>>

\* the state the ledger handlers neither read nor write
otherVars == <<receiptVars, budgetVars, reportVars, sessionVars>>
\* the state the receipt handlers neither read nor write
nonReceiptVars == <<ledgerVars, budgetVars, reportVars, sessionVars>>
\* the state the budget handlers neither read nor write
nonBudgetVars == <<ledgerVars, receiptVars, reportVars, sessionVars>>
\* the state the report handlers neither read nor write
nonReportVars == <<ledgerVars, receiptVars, budgetVars, sessionVars>>
\* the state identity resolution and the session settings do not touch
nonSessionVars == <<ledgerVars, receiptVars, budgetVars, reportVars>>

vars == <<balance, transfers, transactions, conns, reqs, response, started,
          receiptVars, budgetVars, reportVars, sessionVars>>

IdleReq == [pc |-> "idle", caller |-> 0, from |-> 0, to |-> 0,
            amount |-> 0, fee |-> 0, readBal |-> 0, violated |-> {}]

\* violated: the preconditions of the operation that the answered request
\* did not meet (a record of the request, kept for the properties below)
Response(kind, outcome, violated) ==
    [kind |-> kind, outcome |-> outcome, violated |-> violated]

\* a client can issue a request and pool.connect() can hand it connection c.
\* Idle connections in the same state are interchangeable: the one with the
\* lowest number stands for all of them.
CanStart(c) ==
    /\ started < MaxRequests
    /\ ~conns[c].busy
    /\ \A d \in Conns : d < c => conns[d] # conns[c]

\* busy: checked out of the pool; inTx: a transaction is open on it;
\* pTransfers, pTxns: the rows inserted in the open transaction.  The session
\* setting app.current_user_id that the handlers SET is read by no statement
\* of these handlers; it is kept apart, in session.
IdleConn == [busy |-> FALSE, inTx |-> FALSE,
             pTransfers |-> <<>>, pTxns |-> <<>>]

IdleReceiptReq == [pc |-> "idle", receipt |-> 0, user |-> 0, account |-> 0,
                   amount |-> 0]

ReceiptResponse(outcome, receipt) == [outcome |-> outcome, receipt |-> receipt]

ReceiptInit ==
    /\ rcptFlag = [r \in Receipts |-> FALSE]
    /\ linked = <<>>
    /\ rcptReqs = [k \in ReceiptCalls |-> IdleReceiptReq]
    /\ rcptResp = ReceiptResponse("none", 0)
    /\ rcptCalls = 0

IdleBudgetReq == [pc |-> "idle", budget |-> 0, caller |-> 0, limit |-> 0,
                  categories |-> <<>>, todo |-> <<>>]

BudgetInit ==
    /\ budgets = <<>>
    /\ budgetCats = <<>>
    /\ bReq = IdleBudgetReq
    /\ bResp = [kind |-> "none"]
    /\ bCalls = 0

\* fresh connections, no request seen
SessionInit ==
    /\ session = [c \in Conns |-> Null]
    /\ authResp = [kind |-> "none"]
    /\ pending = [kind |-> "none"]
    /\ lastQuery = [kind |-> "none"]

\* no report has been asked for
ReportInit ==
    /\ hIn = [kind |-> "none"]
    /\ hOut = [kind |-> "none"]
    /\ sumResp = [kind |-> "none"]
    /\ spendResp = [kind |-> "none"]

LedgerInit ==
    /\ balance = InitBalance
    /\ transfers = <<>>
    /\ transactions = <<>>
    /\ conns = [c \in Conns |-> IdleConn]
    /\ reqs = [c \in Conns |-> IdleReq]
    /\ response = Response("none", "none", {})
    /\ started = 0

Init ==
    /\ ReceiptInit
    /\ BudgetInit
    /\ ReportInit
    /\ SessionInit
    /\ LedgerInit

(* ------------------------ store operations ----------------------------- *)
\* sum of the values of bal over the set S
RECURSIVE SumOver(_, _)
SumOver(bal, S) ==
    IF S = {} THEN 0
    ELSE LET a == CHOOSE a \in S : TRUE IN bal[a] + SumOver(bal, S \ {a})

RECURSIVE MinOf(_)
MinOf(S) == LET x == CHOOSE x \in S : TRUE
            IN IF S = {x} THEN x
               ELSE LET m == MinOf(S \ {x}) IN IF x < m THEN x ELSE m

\* SELECT ... FROM finance.accounts WHERE user_id = $1 ORDER BY account_id
\* ASC LIMIT 1 : 0 stands for the empty result
RecipientAccount(uid) ==
    LET owned == {a \in Accounts : AccountOwner[a] = uid}
    IN IF owned = {} THEN 0 ELSE MinOf(owned)

\* the destination the contract derives for a recipient: the earliest-created
\* of the recipient's active accounts, 0 when there is none
ActiveRecipientAccount(uid) ==
    LET owned == {a \in Accounts : AccountOwner[a] = uid /\ AccountActive[a]}
    IN IF owned = {} THEN 0 ELSE MinOf(owned)

\* The balance trigger of finance.transfers: the source is debited by
\* amount + fee, then the destination is credited by amount.
TransferTriggerMutant(bal, row) ==
    [bal EXCEPT ![row.from] = @ - (row.amount + row.fee)]
TransferTrigger(bal, row) ==
    LET debited == [bal EXCEPT ![row.from] = @ - (row.amount + row.fee)]
    IN [debited EXCEPT ![row.to] = @ + row.amount]

RECURSIVE ApplyTransfers(_, _)
ApplyTransfers(bal, rows) ==
    IF rows = <<>> THEN bal
    ELSE ApplyTransfers(TransferTrigger(bal, Head(rows)), Tail(rows))

(* ------------------------- Create Transfer ----------------------------- *)
\* The precondition checks of the handler in the order the code makes them;
\* "pass" when the transfer row is going to be inserted.
TransferOutcomeNoOwnerCheck(caller, fromId, toUserId, amount, fee, bal) ==
    LET from == SqlParam(fromId)
        toAcc == RecipientAccount(SqlParam(toUserId))
    IN IF StrictEq(caller, toUserId) THEN "self"
       ELSE IF from \notin Accounts THEN "source_not_found"
       ELSE IF toAcc = 0 THEN "no_recipient"
       ELSE IF bal[from] < amount + fee THEN "insufficient"
       ELSE IF StrictEq(toAcc, fromId) THEN "same_account"
       ELSE "pass"

TransferOutcomeNoFee(caller, fromId, toUserId, amount, fee, bal) ==
    LET from == SqlParam(fromId)
        toAcc == RecipientAccount(SqlParam(toUserId))
    IN IF StrictEq(caller, toUserId) THEN "self"
       ELSE IF from \notin Accounts THEN "source_not_found"
       ELSE IF toAcc = 0 THEN "no_recipient"
       ELSE IF AccountOwner[from] # caller THEN "forbidden"
       ELSE IF bal[from] < amount THEN "insufficient"
       ELSE IF StrictEq(toAcc, fromId) THEN "same_account"
       ELSE "pass"

TransferOutcome(caller, fromId, toUserId, amount, fee, bal) ==
    LET from == SqlParam(fromId)
        toAcc == RecipientAccount(SqlParam(toUserId))
    IN IF StrictEq(caller, toUserId) THEN "self"
       ELSE IF from \notin Accounts THEN "source_not_found"
       ELSE IF toAcc = 0 THEN "no_recipient"
       ELSE IF AccountOwner[from] # caller THEN "forbidden"
       ELSE IF bal[from] < amount + fee THEN "insufficient"
       ELSE IF StrictEq(toAcc, fromId) THEN "same_account"
       ELSE "pass"

\* The preconditions of Create Transfer that a request does not meet, by
\* their number in the operation's contract, ids compared by value:
\* 1 no self-transfer, 2 source exists and is the caller's, 3 the recipient
\* has an active account, 4 the source balance covers amount + fee.
Violated(caller, fromId, toUserId, amount, fee, bal) ==
    LET from == fromId.val
        toAcc == ActiveRecipientAccount(toUserId.val)
    IN {n \in 1..4 :
          \/ n = 1 /\ (caller = toUserId.val \/ from = toAcc)
          \/ n = 2 /\ (from \notin Accounts \/ AccountOwner[from] # caller)
          \/ n = 3 /\ toAcc = 0
          \/ n = 4 /\ from \in Accounts /\ bal[from] < amount + fee}

\* pool.connect, BEGIN, the two SETs, the self-transfer check, the reads of
\* the source and recipient accounts and the checks on them.  Every early
\* return goes through finally { client.release() } with the transaction that
\* BEGIN opened still open on the connection.
StartTransfer(c, caller, fromId, toUserId, amount, fee) ==
    /\ CanStart(c)
    /\ started' = started + 1
    /\ LET out == TransferOutcome(caller, fromId, toUserId, amount, fee, balance)
           viol == Violated(caller, fromId, toUserId, amount, fee, balance)
       IN IF out = "pass"
          THEN /\ reqs' = [reqs EXCEPT ![c] =
                     [pc |-> "insert", caller |-> caller,
                      from |-> SqlParam(fromId),
                      to |-> RecipientAccount(SqlParam(toUserId)),
                      amount |-> amount, fee |-> fee,
                      readBal |-> balance[SqlParam(fromId)],
                      violated |-> viol]]
               /\ conns' = [conns EXCEPT ![c].busy = TRUE, ![c].inTx = TRUE]
               /\ UNCHANGED response
          ELSE /\ response' = Response("transfer", out, viol)
               /\ conns' = [conns EXCEPT ![c].inTx = TRUE]
               /\ UNCHANGED reqs
    /\ UNCHANGED <<balance, transfers, transactions, otherVars>>

\* the row the INSERT INTO finance.transfers statement is given
TransferRow(q) ==
    [from |-> q.from, to |-> q.to, amount |-> q.amount, fee |-> q.fee]

\* INSERT INTO finance.transfers inside the open transaction
InsertTransfer(c) ==
    /\ reqs[c].pc = "insert"
    /\ conns' = [conns EXCEPT ![c].pTransfers =
                                  Append(@, TransferRow(reqs[c]))]
    /\ reqs' = [reqs EXCEPT ![c].pc = "commit"]
    /\ UNCHANGED <<balance, transfers, transactions, response, started,
                   otherVars>>

\* What COMMIT publishes of a connection's open transaction.
CommittedBalanceRowsOnly(bal, cn) == bal
CommittedBalance(bal, cn) == ApplyTransfers(bal, cn.pTransfers)

\* COMMIT
CommitTransfer(c) ==
    /\ reqs[c].pc = "commit"
    /\ balance' = CommittedBalance(balance, conns[c])
    /\ transfers' = transfers \o conns[c].pTransfers
    /\ transactions' = transactions \o conns[c].pTxns
    /\ conns' = [conns EXCEPT ![c].inTx = FALSE,
                              ![c].pTransfers = <<>>,
                              ![c].pTxns = <<>>]
    /\ reqs' = [reqs EXCEPT ![c].pc = "reread"]
    /\ UNCHANGED <<response, started, otherVars>>

\* the two balance re-reads, the 201 response and client.release()
RespondTransfer(c) ==
    /\ reqs[c].pc = "reread"
    /\ conns' = [conns EXCEPT ![c].busy = FALSE]
    /\ response' = Response("transfer", "created", reqs[c].violated)
    /\ reqs' = [reqs EXCEPT ![c] = IdleReq]
    /\ UNCHANGED <<balance, transfers, transactions, started, otherVars>>

\* a statement after the checks throws: catch { ROLLBACK; 500 } and release
FailTransfer(c) ==
    /\ reqs[c].pc \in {"insert", "commit", "reread"}
    /\ conns' = [conns EXCEPT ![c] = IdleConn]
    /\ response' = Response("transfer", "error", reqs[c].violated)
    /\ reqs' = [reqs EXCEPT ![c] = IdleReq]
    /\ UNCHANGED <<balance, transfers, transactions, started, otherVars>>

(* ------------------------ Create Transaction --------------------------- *)
\* The account lookup (account_id = $1 AND user_id = $2) and the category
\* lookup (category_id = $1 AND (user_id = $2 OR is_system = true)), each
\* answered with 404 when it returns no row.
TransactionOutcomeAnyCategory(caller, accountId, categoryId) ==
    IF ~(accountId \in Accounts /\ AccountOwner[accountId] = caller)
    THEN "account_not_found"
    ELSE IF ~(categoryId \in Categories)
    THEN "category_not_found"
    ELSE "txn_created"

TransactionOutcome(caller, accountId, categoryId) ==
    IF ~(accountId \in Accounts /\ AccountOwner[accountId] = caller)
    THEN "account_not_found"
    ELSE IF ~(categoryId \in Categories
              /\ CategoryOwner[categoryId] \in {0, caller})
    THEN "category_not_found"
    ELSE "txn_created"

\* The preconditions of Create Transaction that a request does not meet:
\* 1 the account exists and belongs to the caller, 2 the category is a
\* system category or the caller's.
TxnViolated(caller, accountId, categoryId) ==
    {n \in 1..2 :
       \/ n = 1 /\ (accountId \notin Accounts \/ AccountOwner[accountId] # caller)
       \/ n = 2 /\ (categoryId \notin Categories
                     \/ CategoryOwner[categoryId] \notin {0, caller})}

\* the rows the handler inserts: the INSERT is reached only past both lookups
TransactionInsertUnguarded(out, row) == <<row>>
TransactionInsert(out, row) == IF out = "txn_created" THEN <<row>> ELSE <<>>

\* The whole handler: pool.connect, the two SETs, the account and category
\* lookups, the INSERT, the response and client.release().  No BEGIN or
\* COMMIT is issued: the INSERT commits by itself unless the connection
\* still carries an open transaction, in which case it stays pending there.
\* fails: the store fails one of the statements, the catch branch answers 500
\* and nothing has been inserted.
CreateTransaction(c, caller, accountId, categoryId, type, amount, fails) ==
    /\ CanStart(c)
    /\ started' = started + 1
    /\ LET out == IF fails THEN "txn_error"
                  ELSE TransactionOutcome(caller, accountId, categoryId)
           row == [account |-> accountId, type |-> type, amount |-> amount]
       IN /\ response' = Response("transaction", out,
                                   TxnViolated(caller, accountId, categoryId))
          /\ IF conns[c].inTx
             THEN /\ conns' = [conns EXCEPT
                                 ![c].pTxns = @ \o TransactionInsert(out, row)]
                  /\ UNCHANGED transactions
             ELSE /\ transactions' = transactions \o TransactionInsert(out, row)
                  /\ UNCHANGED conns
    /\ UNCHANGED <<balance, transfers, reqs, otherVars>>

\* The pool closes a connection that stayed idle for idleTimeoutMillis: the
\* store aborts the transaction left open on it and a fresh connection takes
\* its place.
IdleTimeout(c) ==
    /\ ~conns[c].busy
    /\ conns[c] # IdleConn
    /\ conns' = [conns EXCEPT ![c] = IdleConn]
    /\ UNCHANGED <<balance, transfers, transactions, reqs, response, started,
                   otherVars>>

Next ==
    \/ \E c \in Conns :
          /\ CanStart(c)
          /\ \E caller \in Callers, fromId \in BodyIds(AccountIds),
                toUserId \in BodyIds(Users), amount \in Amounts, fee \in Fees :
                  StartTransfer(c, caller, fromId, toUserId, amount, fee)
    \/ \E c \in Conns : InsertTransfer(c)
    \/ \E c \in Conns : CommitTransfer(c)
    \/ \E c \in Conns : RespondTransfer(c)
    \/ \E c \in Conns : FailTransfer(c)
    \/ \E c \in Conns :
          /\ CanStart(c)
          /\ \E caller \in Callers, accountId \in AccountIds,
                categoryId \in CategoryIds, type \in TxnTypes,
                amount \in TxnAmounts, fails \in BOOLEAN :
                  CreateTransaction(c, caller, accountId, categoryId,
                                    type, amount, fails)
    \/ \E c \in Conns : IdleTimeout(c)

Spec == Init /\ [][Next]_vars

(* ------------------- Create Transaction from Receipt ------------------- *)

Abs(x) == IF x < 0 THEN 0 - x ELSE x

\* The handler exists twice: routes/receipts.js behind authenticateToken, and
\* its safe-mode variant that carries no authentication of its own.
ReceiptRoutes == {"receipts", "safe"}

\* userId of the handler.  user is the user_id that authenticateToken put on
\* req.user, 0 when the request reached the handler without req.user.  The
\* middleware sets req.user.user_id; the handlers read req.user.userId.
ReceiptUserId(route, user) ==
    IF route = "safe" /\ user = 0 THEN 1 ELSE Null

\* SELECT receipt_id FROM receipts WHERE receipt_id = $1 AND user_id = $2
\* returns a row
ReceiptCheck(receiptId, userId) ==
    /\ receiptId \in Receipts
    /\ userId # Null
    /\ ReceiptOwner[receiptId] = userId

\* the row of the INSERT INTO transactions statement
ReceiptRow(q) ==
    [receipt |-> q.receipt, user |-> q.user, account |-> q.account,
     type |-> "EXPENSE", amount |-> 0 - Abs(q.amount)]

\* the handler up to its first insert: the safe-mode mock answer when the
\* database is flagged unavailable, the receipt lookup and its 404
StartReceipt(route, user, receiptId, accountId, amount, connected) ==
    /\ rcptCalls < MaxReceiptCalls
    /\ rcptCalls' = rcptCalls + 1
    /\ LET userId == ReceiptUserId(route, user)
       IN IF route = "safe" /\ ~connected
          THEN /\ rcptResp' = ReceiptResponse("mock", receiptId)
               /\ UNCHANGED rcptReqs
          ELSE IF ~ReceiptCheck(receiptId, userId)
          THEN /\ rcptResp' = ReceiptResponse("receipt_not_found", receiptId)
               /\ UNCHANGED rcptReqs
          ELSE /\ rcptReqs' = [rcptReqs EXCEPT ![rcptCalls + 1] =
                     [pc |-> "insert", receipt |-> receiptId, user |-> userId,
                      account |-> accountId, amount |-> amount]]
               /\ UNCHANGED rcptResp
    /\ UNCHANGED <<rcptFlag, linked>>
    /\ UNCHANGED nonReceiptVars

\* INSERT INTO transactions (..., receipt_id), committed by itself
InsertReceiptTransaction(k) ==
    /\ rcptReqs[k].pc = "insert"
    /\ linked' = Append(linked, ReceiptRow(rcptReqs[k]))
    /\ rcptReqs' = [rcptReqs EXCEPT ![k].pc = "update"]
    /\ UNCHANGED <<rcptFlag, rcptResp, rcptCalls>>
    /\ UNCHANGED nonReceiptVars

\* UPDATE receipts SET transaction_created = TRUE and the success response
UpdateReceipt(k) ==
    /\ rcptReqs[k].pc = "update"
    /\ rcptFlag' = [rcptFlag EXCEPT ![rcptReqs[k].receipt] = TRUE]
    /\ rcptResp' = ReceiptResponse("created", rcptReqs[k].receipt)
    /\ rcptReqs' = [rcptReqs EXCEPT ![k] = IdleReceiptReq]
    /\ UNCHANGED <<linked, rcptCalls>>
    /\ UNCHANGED nonReceiptVars

\* the INSERT or the UPDATE throws: the catch branch answers 500
FailReceipt(k) ==
    /\ rcptReqs[k].pc \in {"insert", "update"}
    /\ rcptResp' = ReceiptResponse("error", rcptReqs[k].receipt)
    /\ rcptReqs' = [rcptReqs EXCEPT ![k] = IdleReceiptReq]
    /\ UNCHANGED <<rcptFlag, linked, rcptCalls>>
    /\ UNCHANGED nonReceiptVars

ReceiptNext ==
    \/ /\ rcptCalls < MaxReceiptCalls
       /\ \E route \in ReceiptRoutes, user \in {0} \cup Callers,
             receiptId \in ReceiptIds, accountId \in Accounts,
             amount \in TxnAmounts, connected \in BOOLEAN :
               /\ route = "receipts" => user # 0
               /\ StartReceipt(route, user, receiptId, accountId, amount,
                               connected)
    \/ \E k \in ReceiptCalls : InsertReceiptTransaction(k)
    \/ \E k \in ReceiptCalls : UpdateReceipt(k)
    \/ \E k \in ReceiptCalls : FailReceipt(k)

SpecReceipts == Init /\ [][ReceiptNext]_vars

(* ---------------------------- Create Budget ---------------------------- *)
BudgetLimits == {500}
AllocAmounts == {0, 200, 320}
\* startDate and endDate of a request, as days
StartDates == {2}
EndDates == 2..3

\* category ids a Create Budget request may name: two existing categories
\* and the missing one
BudgetCategoryIds == {1, 2} \cup (CategoryIds \ Categories)

\* an element of the categories array of the request body
Allocation == [categoryId : BudgetCategoryIds, allocatedAmount : AllocAmounts]

RECURSIVE SeqsUpTo(_, _)
SeqsUpTo(S, n) ==
    IF n = 0 THEN {<<>>}
    ELSE LET shorter == SeqsUpTo(S, n - 1)
         IN shorter \cup {Append(q, x) : q \in {r \in shorter : Len(r) = n - 1},
                                          x \in S}

\* the categories arrays a request may carry
CategoryLists == SeqsUpTo(Allocation, MaxAllocations)

\* categories.reduce((sum, cat) => sum + parseFloat(cat.allocatedAmount), 0)
RECURSIVE TotalAllocated(_)
TotalAllocated(cats) ==
    IF cats = <<>> THEN 0
    ELSE Head(cats).allocatedAmount + TotalAllocated(Tail(cats))

\* categoryCheck.rows : SELECT category_id FROM categories WHERE
\* category_id = ANY($1) returns every matching category once
CategoryCheckRows(cats) ==
    {c \in Categories : \E i \in 1..Len(cats) : cats[i].categoryId = c}

\* categories.filter(cat => cat.allocatedAmount > 0)
HasAllocation(cat) == cat.allocatedAmount > 0
CategoriesWithAllocations(cats) == SelectSeq(cats, HasAllocation)

\* The checks of the handler in their order: the date range, the allocated
\* total against the limit, and after pool.connect the category check.
BudgetOutcomeNoLimit(startDate, endDate, totalLimit, cats) ==
    IF endDate <= startDate THEN "invalid_dates"
    ELSE IF Len(cats) > 0 /\ Cardinality(CategoryCheckRows(cats)) # Len(cats)
    THEN "categories_not_found"
    ELSE "pass"

BudgetOutcome(startDate, endDate, totalLimit, cats) ==
    IF endDate <= startDate THEN "invalid_dates"
    ELSE IF TotalAllocated(cats) > totalLimit THEN "allocation_exceeds"
    ELSE IF Len(cats) > 0 /\ Cardinality(CategoryCheckRows(cats)) # Len(cats)
    THEN "categories_not_found"
    ELSE "pass"

\* total, limit, missing: what the answered request asked for (a record of
\* the request, kept for the properties below); missing says that some
\* referenced category id is not in the category store
CreateResponse(outcome, budget, cats, totalLimit) ==
    [kind |-> "create", outcome |-> outcome, budget |-> budget,
     total |-> TotalAllocated(cats), limit |-> totalLimit,
     missing |-> \E i \in 1..Len(cats) : cats[i].categoryId \notin Categories]

\* The handler up to the call of create_budget.  No BEGIN is issued: every
\* later statement commits by itself.  One Create Budget is in flight at a
\* time.
StartBudget(caller, startDate, endDate, totalLimit, cats) ==
    /\ bCalls < MaxBudgetCalls
    /\ bReq.pc = "idle"
    /\ bCalls' = bCalls + 1
    /\ LET out == BudgetOutcome(startDate, endDate, totalLimit, cats)
       IN IF out = "pass"
          THEN /\ bReq' = [pc |-> "create", budget |-> 0, caller |-> caller,
                           limit |-> totalLimit, categories |-> cats,
                           todo |-> <<>>]
               /\ UNCHANGED bResp
          ELSE /\ bResp' = CreateResponse(out, 0, cats, totalLimit)
               /\ UNCHANGED bReq
    /\ UNCHANGED <<budgets, budgetCats>>
    /\ UNCHANGED nonBudgetVars

\* SELECT create_budget(...) : the budget row.  requested records the
\* positive allocations the request asked for (kept for the properties).
CreateBudgetRow ==
    /\ bReq.pc = "create"
    /\ budgets' = Append(budgets,
                     [owner |-> bReq.caller, limit |-> bReq.limit,
                      requested |-> CategoriesWithAllocations(bReq.categories)])
    /\ bReq' = [bReq EXCEPT !.pc = "allocate",
                            !.budget = Len(budgets) + 1,
                            !.todo = CategoriesWithAllocations(bReq.categories)]
    /\ UNCHANGED <<budgetCats, bResp, bCalls>>
    /\ UNCHANGED nonBudgetVars

\* one turn of the loop: INSERT INTO budget_categories
InsertAllocation ==
    /\ bReq.pc = "allocate"
    /\ bReq.todo # <<>>
    /\ budgetCats' = Append(budgetCats,
                        [budget |-> bReq.budget,
                         category |-> Head(bReq.todo).categoryId,
                         allocated |-> Head(bReq.todo).allocatedAmount])
    /\ bReq' = [bReq EXCEPT !.todo = Tail(@)]
    /\ UNCHANGED <<budgets, bResp, bCalls>>
    /\ UNCHANGED nonBudgetVars

\* the re-read of the budget row, the 201 response and client.release()
RespondBudget ==
    /\ bReq.pc = "allocate"
    /\ bReq.todo = <<>>
    /\ bResp' = CreateResponse("budget_created", bReq.budget, bReq.categories,
                               bReq.limit)
    /\ bReq' = IdleBudgetReq
    /\ UNCHANGED <<budgets, budgetCats, bCalls>>
    /\ UNCHANGED nonBudgetVars

\* a statement throws: catch { log; throw error } hands the error to the
\* error middleware, finally releases the client; nothing is undone
FailBudget ==
    /\ bReq.pc \in {"create", "allocate"}
    /\ bResp' = CreateResponse("budget_error", bReq.budget, bReq.categories,
                               bReq.limit)
    /\ bReq' = IdleBudgetReq
    /\ UNCHANGED <<budgets, budgetCats, bCalls>>
    /\ UNCHANGED nonBudgetVars

(* ---------------------- budget detail and analytics -------------------- *)
\* JavaScript values of the response: a number, NaN, Infinity or undefined
Num(n) == [kind |-> "number", val |-> n]
NaN == [kind |-> "NaN", val |-> 0]
Infinity == [kind |-> "Infinity", val |-> 0]
Undefined == [kind |-> "undefined", val |-> 0]

\* row.name for a row of a query result: undefined for a column the query
\* does not select
Column(row, name) == IF name \in DOMAIN row THEN Num(row[name]) ELSE Undefined

\* parseFloat of a column value
ParseFloat(v) == IF v.kind = "number" THEN v ELSE NaN

\* (parseFloat(spent_amount) / parseFloat(allocated_amount)) * 100, the
\* quotient cut to a whole percent
Utilization(spent, allocated) ==
    LET x == ParseFloat(spent)
        y == ParseFloat(allocated)
    IN IF x.kind # "number" \/ y.kind # "number" THEN NaN
       ELSE IF y.val = 0 THEN (IF x.val = 0 THEN NaN ELSE Infinity)
       ELSE Num((x.val * 100) \div y.val)

\* what the expense transactions of the budget period sum to in a category
\* (no budget operation writes the transactions it reads); the reads below
\* are given the same sum for every category
SpentAmounts == {0, 80}

\* rows of budget_categories of a budget joined with the spent amounts
CategoryRows(budgetId, spentOf) ==
    LET IsOf(bc) == bc.budget = budgetId
        rows == SelectSeq(budgetCats, IsOf)
    IN [i \in 1..Len(rows) |->
          [category_id |-> rows[i].category,
           allocated_amount |-> rows[i].allocated,
           spent_amount |-> spentOf[rows[i].category]]]

\* the categories / categoryDistribution array of the response
CategoryEntries(rows) ==
    [i \in 1..Len(rows) |->
       [allocatedAmount |-> ParseFloat(Column(rows[i], "allocated_amount")),
        spentAmount |-> ParseFloat(Column(rows[i], "spent_amount")),
        utilizationPercentage |->
            Utilization(Column(rows[i], "spent_amount"),
                        Column(rows[i], "allocated_amount"))]]

\* budgets WHERE user_id = $1 AND budget_id = $2 returns a row
BudgetOwned(caller, budgetId) ==
    budgetId \in 1..Len(budgets) /\ budgets[budgetId].owner = caller

\* GET /:id : the budget query selects budget_id, budget_name, start_date,
\* end_date, total_budget, created_date, is_active and total_spent
BudgetDetail(caller, budgetId, spentOf) ==
    /\ bCalls < MaxBudgetCalls
    /\ bCalls' = bCalls + 1
    /\ IF ~BudgetOwned(caller, budgetId)
       THEN bResp' = [kind |-> "detail", outcome |-> "budget_not_found"]
       ELSE LET budget == [budget_id |-> budgetId,
                           total_budget |-> budgets[budgetId].limit,
                           total_spent |-> SumOver(spentOf, Categories)]
            IN bResp' =
                 [kind |-> "detail", outcome |-> "ok",
                  totalLimit |-> ParseFloat(Column(budget, "total_budget")),
                  totalSpent |-> ParseFloat(Column(budget, "total_spent")),
                  utilizationPercentage |->
                      ParseFloat(Column(budget, "utilization_percentage")),
                  categories |->
                      CategoryEntries(CategoryRows(budgetId, spentOf))]
    /\ UNCHANGED <<budgets, budgetCats, bReq>>
    /\ UNCHANGED nonBudgetVars

\* GET /:id/analytics
BudgetAnalytics(caller, budgetId, spentOf) ==
    /\ bCalls < MaxBudgetCalls
    /\ bCalls' = bCalls + 1
    /\ IF ~BudgetOwned(caller, budgetId)
       THEN bResp' = [kind |-> "analytics", outcome |-> "budget_not_found"]
       ELSE bResp' =
              [kind |-> "analytics", outcome |-> "ok",
               categories |-> CategoryEntries(CategoryRows(budgetId, spentOf))]
    /\ UNCHANGED <<budgets, budgetCats, bReq>>
    /\ UNCHANGED nonBudgetVars

BudgetNext ==
    \/ /\ bCalls < MaxBudgetCalls
       /\ bReq.pc = "idle"
       /\ \E caller \in Callers, startDate \in StartDates, endDate \in EndDates,
             totalLimit \in BudgetLimits, cats \in CategoryLists :
               StartBudget(caller, startDate, endDate, totalLimit, cats)
    \/ CreateBudgetRow
    \/ InsertAllocation
    \/ RespondBudget
    \/ FailBudget
    \/ /\ bCalls < MaxBudgetCalls
       /\ \E caller \in Callers, budgetId \in 1..MaxBudgetCalls,
             spent \in SpentAmounts :
               BudgetDetail(caller, budgetId, [c \in Categories |-> spent])
    \/ /\ bCalls < MaxBudgetCalls
       /\ \E caller \in Callers, budgetId \in 1..MaxBudgetCalls,
             spent \in SpentAmounts :
               BudgetAnalytics(caller, budgetId, [c \in Categories |-> spent])

SpecBudgets == Init /\ [][BudgetNext]_vars

(* --------------------------- financial health -------------------------- *)
\* values of the metrics row: total_balance, monthly_income,
\* monthly_expenses, active_budgets and account_count
HealthBalances == {0 - 50, 0, 1000, 1001, 5000, 5001, 10000, 10001, 12000}
HealthIncomes == {0, 1000, 3000}
HealthExpenses == {0, 499, 500, 699, 700, 899, 900, 1200, 2100, 2700}
HealthBudgets == 0..2
HealthAccounts == 0..4

HealthInputs ==
    [kind : {"metrics"}, total_balance : HealthBalances,
     monthly_income : HealthIncomes, monthly_expenses : HealthExpenses,
     active_budgets : HealthBudgets, account_count : HealthAccounts]

\* Balance score (0-30 points)
BalanceScoreInclusive(totalBalance) ==
    IF totalBalance >= 10000 THEN 30
    ELSE IF totalBalance >= 5000 THEN 20
    ELSE IF totalBalance >= 1000 THEN 10
    ELSE 0

BalanceScore(totalBalance) ==
    IF totalBalance > 10000 THEN 30
    ELSE IF totalBalance > 5000 THEN 20
    ELSE IF totalBalance > 1000 THEN 10
    ELSE 0

\* Income vs Expenses ratio (0-30 points); expenseRatio < 0.5 is compared
\* as 10 * monthlyExpenses < 5 * monthlyIncome, monthlyIncome being positive
RatioScore(monthlyIncome, monthlyExpenses) ==
    IF monthlyIncome > 0
    THEN IF 10 * monthlyExpenses < 5 * monthlyIncome THEN 30
         ELSE IF 10 * monthlyExpenses < 7 * monthlyIncome THEN 20
         ELSE IF 10 * monthlyExpenses < 9 * monthlyIncome THEN 10
         ELSE 0
    ELSE 0

\* Budgeting behavior (0-20 points)
BudgetScore(activeBudgets) == IF activeBudgets > 0 THEN 20 ELSE 0

\* Account diversification (0-20 points)
AccountScore(accountCount) ==
    IF accountCount >= 3 THEN 20
    ELSE IF accountCount >= 2 THEN 10
    ELSE 0

\* healthScore after the four additions
HealthScore(metrics) ==
    BalanceScore(metrics.total_balance)
    + RatioScore(metrics.monthly_income, metrics.monthly_expenses)
    + BudgetScore(metrics.active_budgets)
    + AccountScore(metrics.account_count)

HealthLevel(healthScore) ==
    IF healthScore >= 80 THEN "Excellent"
    ELSE IF healthScore >= 60 THEN "Good"
    ELSE IF healthScore >= 40 THEN "Fair"
    ELSE "Needs Improvement"

\* the handler from the metrics row to the response
FinancialHealth ==
    /\ hIn.kind = "metrics"
    /\ hOut.kind = "none"
    /\ hOut' = [kind |-> "health", healthScore |-> HealthScore(hIn),
                healthLevel |-> HealthLevel(HealthScore(hIn))]
    /\ UNCHANGED <<hIn, sumResp, spendResp>>
    /\ UNCHANGED nonReportVars

\* the metrics row is any row of the bounded set
InitHealth ==
    /\ ReceiptInit
    /\ BudgetInit
    /\ LedgerInit
    /\ SessionInit
    /\ hIn \in HealthInputs
    /\ hOut = [kind |-> "none"]
    /\ sumResp = [kind |-> "none"]
    /\ spendResp = [kind |-> "none"]

HealthNext == FinancialHealth

SpecHealth == InitHealth /\ [][HealthNext]_vars

(* ------------------------------- Summary ------------------------------- *)
\* req.user as authenticateToken builds it for the authenticated user
ReqUser(user) == [user_id |-> user, isActive |-> TRUE]

PropertyUserId(object, name) == object.user_id

\* object.name : undefined, bound as SQL NULL, for a property the object
\* does not have
Property(object, name) ==
    IF name \in DOMAIN object THEN object[name] ELSE Null

\* accounts WHERE user_id = $1 AND is_active = true ; a NULL parameter
\* matches no row
SummaryAccounts(userId) ==
    {a \in Accounts : userId # Null /\ AccountOwner[a] = userId
                                    /\ AccountActive[a]}

\* transactions t JOIN accounts a ON t.account_id = a.account_id WHERE
\* a.user_id = $1
SummaryTransactions(userId) ==
    LET IsOf(t) == userId # Null /\ AccountOwner[t.account] = userId
    IN SelectSeq(transactions, IsOf)

\* SUM(CASE WHEN transaction_type = type THEN amount ELSE 0 END)
RECURSIVE SumOfType(_, _)
SumOfType(rows, type) ==
    IF rows = <<>> THEN 0
    ELSE (IF Head(rows).type = type THEN Head(rows).amount ELSE 0)
         + SumOfType(Tail(rows), type)

\* budgets WHERE user_id = $1 AND is_active = true AND end_date >=
\* CURRENT_DATE ; every budget of the model is active and current
SummaryBudgets(userId) ==
    {b \in 1..Len(budgets) : userId # Null /\ budgets[b].owner = userId}

\* GET /summary.  fails: one of the three queries rejects.  caller and
\* failed in the response record who asked and whether a query failed
\* (kept for the properties below).
Summary(caller, fails) ==
    /\ LET userId == Property(ReqUser(caller), "userId")
           rows == SummaryTransactions(userId)
           totalIncome == SumOfType(rows, "income")
           totalExpenses == SumOfType(rows, "expense")
       IN sumResp' =
            IF fails
            THEN \* catch : the same response shape with every figure 0
                 [kind |-> "summary", caller |-> caller, failed |-> TRUE,
                  success |-> TRUE,
                  totalBalance |-> 0, totalIncome |-> 0,
                  totalExpenses |-> 0, netWorth |-> 0, accountsCount |-> 0,
                  transactionsCount |-> 0, activeBudgetsCount |-> 0]
            ELSE
            [kind |-> "summary", caller |-> caller, failed |-> FALSE,
             success |-> TRUE,
             totalBalance |-> SumOver(balance, SummaryAccounts(userId)),
             totalIncome |-> totalIncome,
             totalExpenses |-> totalExpenses,
             netWorth |-> totalIncome - totalExpenses,
             accountsCount |-> Cardinality(SummaryAccounts(userId)),
             transactionsCount |-> Len(rows),
             activeBudgetsCount |-> Cardinality(SummaryBudgets(userId))]
    /\ UNCHANGED <<hIn, hOut, spendResp>>
    /\ UNCHANGED nonReportVars

\* the budgets the store holds when the summaries are asked for
StoredBudgets ==
    {<<>>, <<[owner |-> 1, limit |-> 500, requested |-> <<>>]>>}

InitSummary ==
    /\ ReceiptInit
    /\ ReportInit
    /\ SessionInit
    /\ LedgerInit
    /\ budgets \in StoredBudgets
    /\ budgetCats = <<>>
    /\ bReq = IdleBudgetReq
    /\ bResp = [kind |-> "none"]
    /\ bCalls = 0

SummaryNext ==
    \/ \E c \in Conns :
          /\ CanStart(c)
          /\ \E caller \in Callers, accountId \in AccountIds,
                categoryId \in CategoryIds, type \in TxnTypes,
                amount \in TxnAmounts, fails \in BOOLEAN :
                  CreateTransaction(c, caller, accountId, categoryId,
                                    type, amount, fails)
    \/ \E caller \in Callers, fails \in BOOLEAN : Summary(caller, fails)

SpecSummary == InitSummary /\ [][SummaryNext]_vars

(* ------------------- Monthly and category spending -------------------- *)
\* DATE_TRUNC('month', transaction_date) of the stored rows
Months == 1..2

\* a stored transaction row with the columns the reports group by: rows as
\* Create Transaction stores them, on an active account and in a category
\* its owner can use (user 1 in the system category or in category 2, user
\* 2 in category 3)
LedgerRows ==
    {r \in [account : {2, 3}, category : Categories, type : TxnTypes,
            amount : TxnAmounts, month : Months] :
        \/ r.account = 2 /\ r.category \in {1, 2}
        \/ r.account = 3 /\ r.category = 3}

\* no report depends on the order of the rows of the table: the ledgers
\* listed in the order of this key stand for all of them
RowKey(r) ==
    r.account * 100 + r.category * 10 + r.month * 2
      + (IF r.type = "INCOME" THEN 0 ELSE 1)

\* GET parameters
ReportTypes == {"expense", "EXPENSE"}
ReportLimits == {1, 10}
ReportMonths == {1, 12}
ReportStarts == {Null, 2}
ReportEnds == {Null, 1}

\* a quotient the database or JavaScript computes, kept as its two terms
Ratio(num, den) == [num |-> num, den |-> den]

MaxOf(S) == CHOOSE x \in S : \A y \in S : y <= x

RECURSIVE SumAmounts(_)
SumAmounts(rows) ==
    IF rows = <<>> THEN 0 ELSE Head(rows).amount + SumAmounts(Tail(rows))

\* the numbers of S from the highest down (ORDER BY ... DESC on a key)
RECURSIVE Descending(_)
Descending(S) ==
    IF S = {} THEN <<>> ELSE <<MaxOf(S)>> \o Descending(S \ {MaxOf(S)})

\* the orders in which ORDER BY total DESC may return the rows of S: rows
\* with equal totals come in any order
OrderedByTotal(S) ==
    {s \in [1..Cardinality(S) -> S] :
        /\ \A i, j \in DOMAIN s : i # j => s[i] # s[j]
        /\ \A i, j \in DOMAIN s : i < j => s[i].total >= s[j].total}

\* FROM transactions t JOIN accounts a ... WHERE a.user_id = $1 AND
\* t.transaction_type = $2 [AND t.transaction_date >= start]
\* [AND t.transaction_date <= end] ; a NULL user id matches no row
SpendingRows(userId, type, startDate, endDate) ==
    LET IsIn(t) == /\ userId # Null
                   /\ AccountOwner[t.account] = userId
                   /\ t.type = type
                   /\ startDate # Null => t.month >= startDate
                   /\ endDate # Null => t.month <= endDate
    IN SelectSeq(transactions, IsIn)

RowsOfCategory(rows, c) ==
    LET IsC(t) == t.category = c IN SelectSeq(rows, IsC)

\* GROUP BY c.category_name, c.category_type with its aggregates (the
\* categories of the store have distinct names)
CategoryGroups(rows) ==
    {[category |-> c,
      total |-> SumAmounts(RowsOfCategory(rows, c)),
      count |-> Len(RowsOfCategory(rows, c)),
      min |-> MinOf({RowsOfCategory(rows, c)[i].amount :
                       i \in 1..Len(RowsOfCategory(rows, c))}),
      max |-> MaxOf({RowsOfCategory(rows, c)[i].amount :
                       i \in 1..Len(RowsOfCategory(rows, c))})] :
       c \in {rows[i].category : i \in 1..Len(rows)}}

\* parseFloat(totalResult.rows[0].total) || 1 : SUM is NULL over no rows
TotalOrOne(rows) ==
    IF rows = <<>> \/ SumAmounts(rows) = 0 THEN 1 ELSE SumAmounts(rows)

\* LIMIT n
Limit(s, n) == SubSeq(s, 1, IF Len(s) < n THEN Len(s) ELSE n)

\* what errorHandler answers when a handler wrapped in asyncHandler rejects
\* with a store error (a code outside the listed ones)
ErrorHandlerResponse ==
    [kind |-> "error", success |-> FALSE, status |-> 500,
     message |-> "Database operation failed"]

\* GET /category-spending.  fails: one of the two queries rejects; the
\* handler has no try block.  caller, type, startDate, endDate and limit in
\* the response record the request (kept for the properties below).
CategorySpending(caller, type, startDate, endDate, limit, fails) ==
    /\ LET userId == Property(ReqUser(caller), "userId")
           rows == SpendingRows(userId, type, startDate, endDate)
           totalAmount == TotalOrOne(rows)
           Entry(g) == [categoryName |-> g.category,
                        totalAmount |-> g.total,
                        percentage |-> Ratio(g.total * 100, totalAmount),
                        transactionCount |-> g.count,
                        avgAmount |-> Ratio(g.total, g.count),
                        minAmount |-> g.min,
                        maxAmount |-> g.max]
       IN IF fails
          THEN spendResp' = ErrorHandlerResponse
          ELSE \E result \in OrderedByTotal(CategoryGroups(rows)) :
                 spendResp' =
                   [kind |-> "category", caller |-> caller, type |-> type,
                    startDate |-> startDate, endDate |-> endDate,
                    limit |-> limit, success |-> TRUE,
                    data |-> [i \in 1..Len(Limit(result, limit)) |->
                                Entry(result[i])]]
    /\ UNCHANGED <<hIn, hOut, sumResp>>
    /\ UNCHANGED nonReportVars

\* the rows of the caller's accounts dated in month m
MonthRows(userId, m) ==
    LET IsIn(t) == /\ userId # Null
                   /\ AccountOwner[t.account] = userId
                   /\ t.month = m
    IN SelectSeq(transactions, IsIn)

RowsOfType(rows, type) ==
    LET IsT(t) == t.type = type IN SelectSeq(rows, IsT)

\* monthly_categories with rn = 1 for month m: ROW_NUMBER() ... ORDER BY
\* SUM(t.amount) DESC numbers the categories of equal sum in any order, so
\* each category with the highest sum may be the one numbered 1; the LEFT
\* JOIN gives NULLs when the month has no such row
TopCategories(userId, m) ==
    LET groups == CategoryGroups(RowsOfType(MonthRows(userId, m), "expense"))
    IN IF groups = {}
       THEN {[category |-> Null, total |-> 0]}
       ELSE {[category |-> g.category, total |-> g.total] :
               g \in {h \in groups : \A k \in groups : k.total <= h.total}}

\* GET /monthly-spending.  fails: the query rejects and the catch branch
\* answers.  caller and months in the response record the request, failed
\* whether the query failed (kept for the properties below).
MonthlySpending(caller, months, fails) ==
    /\ LET userId == Property(ReqUser(caller), "userId")
           found == {m \in Months : MonthRows(userId, m) # <<>>}
           order == Limit(Descending(found), months)
           Entry(m, top) ==
             LET rows == MonthRows(userId, m)
                 totalIncome == SumOfType(rows, "income")
                 totalExpenses == SumOfType(rows, "expense")
             IN [month |-> m,
                 totalIncome |-> totalIncome,
                 totalExpenses |-> totalExpenses,
                 netIncome |-> totalIncome - totalExpenses,
                 transactionCount |-> Len(rows),
                 avgTransactionAmount |-> Ratio(SumAmounts(rows), Len(rows)),
                 topCategory |-> top.category,
                 topCategoryAmount |-> top.total]
       IN IF fails
          THEN spendResp' = [kind |-> "monthly", failed |-> TRUE,
                             success |-> TRUE, data |-> <<>>]
          ELSE \E top \in [found -> UNION {TopCategories(userId, m) :
                                              m \in found}] :
                 /\ \A m \in found : top[m] \in TopCategories(userId, m)
                 /\ spendResp' =
                      [kind |-> "monthly", failed |-> FALSE,
                       caller |-> caller, months |-> months,
                       success |-> TRUE,
                       data |-> [i \in 1..Len(order) |->
                                   Entry(order[i], top[order[i]])]]
    /\ UNCHANGED <<hIn, hOut, sumResp>>
    /\ UNCHANGED nonReportVars

\* the ledgers of at most MaxLedgerRows rows
Ledgers ==
    {s \in SeqsUpTo(LedgerRows, MaxLedgerRows) :
        \A i \in 1..(Len(s) - 1) : RowKey(s[i]) <= RowKey(s[i + 1])}

\* the store holds any of the ledgers
InitReports ==
    /\ ReceiptInit
    /\ BudgetInit
    /\ ReportInit
    /\ SessionInit
    /\ balance = InitBalance
    /\ transfers = <<>>
    /\ transactions \in Ledgers
    /\ conns = [c \in Conns |-> IdleConn]
    /\ reqs = [c \in Conns |-> IdleReq]
    /\ response = Response("none", "none", {})
    /\ started = 0

ReportsNext ==
    \/ \E caller \in Callers, fails \in BOOLEAN : Summary(caller, fails)
    \/ \E caller \in Callers, months \in ReportMonths, fails \in BOOLEAN :
          MonthlySpending(caller, months, fails)
    \/ \E caller \in Callers, type \in ReportTypes,
          startDate \in ReportStarts, endDate \in ReportEnds,
          limit \in ReportLimits, fails \in BOOLEAN :
            CategorySpending(caller, type, startDate, endDate, limit, fails)

SpecReports == InitReports /\ [][ReportsNext]_vars

(* ---------------- identity resolution and session state ---------------- *)
\* ids a token may carry: the existing users and a missing one
UserIds == 1..4
\* finance.users.is_active : user 3 has been deactivated
UserActive == <<TRUE, TRUE, FALSE>>

\* what the Authorization header may hold: nothing, a token jwt.verify
\* rejects as malformed or wrongly signed, an expired token, and a token
\* that verifies, whose payload carries user_id or lacks it
Tokens ==
    {[kind |-> k, user_id |-> Null] : k \in {"missing", "malformed", "expired"}}
      \cup {[kind |-> "valid", user_id |-> u] : u \in UserIds \cup {Null}}

\* the routes behind authenticateToken that take a pooled client
Routes == {"transfers", "users", "user_accounts"}

\* SELECT ... FROM finance.users WHERE user_id = $1 AND is_active = true
ActiveUserRows(userId) ==
    {u \in Users : u = userId /\ UserActive[u]}

\* the path authenticateToken takes.  connects: pool.connect() resolves;
\* queries: the statements on the client succeed.  pool.connect() is
\* awaited before the try block: when it rejects, the middleware's promise
\* rejects, nothing answers the request and next() is not called.
AuthOutcome(token, connects, queries) ==
    IF token.kind = "missing" THEN "token_required"
    ELSE IF ~connects THEN "no_response"
    ELSE IF token.kind = "malformed" THEN "invalid_token"
    ELSE IF token.kind = "expired" THEN "token_expired"
    ELSE IF ~queries THEN "auth_failed"
    ELSE IF ActiveUserRows(token.user_id) = {} THEN "user_not_found"
    ELSE "attached"

\* res.status(...) of each path; Null where no response is sent
AuthStatus(outcome) ==
    CASE outcome \in {"token_required", "invalid_token", "token_expired",
                      "user_not_found"} -> 401
      [] outcome = "auth_failed" -> 500
      [] OTHER -> Null

\* authenticateToken on connection c for a request to route.  token,
\* connects and queries in authResp record the request (kept for the
\* properties below).
AuthenticateToken(c, token, route, connects, queries) ==
    /\ pending.kind = "none"
    /\ LET outcome == AuthOutcome(token, connects, queries)
       IN /\ authResp' = [kind |-> "auth", token |-> token,
                          connects |-> connects, queries |-> queries,
                          outcome |-> outcome,
                          status |-> AuthStatus(outcome),
                          success |-> FALSE,
                          sent |-> AuthStatus(outcome) # Null,
                          next |-> outcome = "attached"]
          /\ lastQuery' =
               IF outcome \in {"user_not_found", "attached"}
               THEN [kind |-> "query", conn |-> c, by |-> token.user_id,
                     ambient |-> session[c]]
               ELSE lastQuery
          /\ pending' =
               IF outcome = "attached"
               THEN [kind |-> "request", user |-> ReqUser(token.user_id),
                     route |-> route]
               ELSE pending
    /\ UNCHANGED session
    /\ UNCHANGED nonSessionVars

\* GET /transfers on connection c: SET app.current_user_id, the queries,
\* client.release().  The setting stays on the connection.
ListTransfers(c) ==
    /\ pending.kind = "request"
    /\ pending.route = "transfers"
    /\ session' = [session EXCEPT ![c] = pending.user.user_id]
    /\ lastQuery' = [kind |-> "query", conn |-> c,
                     by |-> pending.user.user_id,
                     ambient |-> pending.user.user_id]
    /\ pending' = [kind |-> "none"]
    /\ UNCHANGED authResp
    /\ UNCHANGED nonSessionVars

\* GET /users and GET /users/:userId/accounts on connection c: the query
\* runs with whatever the connection carries
ListUsers(c) ==
    /\ pending.kind = "request"
    /\ pending.route \in {"users", "user_accounts"}
    /\ lastQuery' = [kind |-> "query", conn |-> c,
                     by |-> pending.user.user_id,
                     ambient |-> session[c]]
    /\ pending' = [kind |-> "none"]
    /\ UNCHANGED <<session, authResp>>
    /\ UNCHANGED nonSessionVars

SessionNext ==
    \/ \E c \in Conns, token \in Tokens, route \in Routes,
          connects \in BOOLEAN, queries \in BOOLEAN :
            AuthenticateToken(c, token, route, connects, queries)
    \/ \E c \in Conns : ListTransfers(c)
    \/ \E c \in Conns : ListUsers(c)

SpecSession == Init /\ [][SessionNext]_vars

(* ======================= properties of the ledger ====================== *)
InFlight == {r \in Conns : reqs[r].pc # "idle"}

\* the responses with which Create Transfer refuses a request
Rejections == {"self", "source_not_found", "no_recipient", "forbidden",
               "insufficient", "same_account"}
\* the refusals decided before the handler compares the balance
EarlyRejections == {"self", "source_not_found", "no_recipient", "forbidden"}

\* a request was issued and answered in this step without being admitted
RefusedStep == started' = started + 1 /\ reqs' = reqs
               /\ response'.kind = "transfer"

\* signed effect of transfer rows on account a
RECURSIVE TransferEffect(_, _)
TransferEffect(a, rows) ==
    IF rows = <<>> THEN 0
    ELSE LET t == Head(rows)
         IN (IF t.to = a THEN t.amount ELSE 0)
            - (IF t.from = a THEN t.amount + t.fee ELSE 0)
            + TransferEffect(a, Tail(rows))

\* signed effect of transaction rows on account a
RECURSIVE TransactionEffect(_, _)
TransactionEffect(a, rows) ==
    IF rows = <<>> THEN 0
    ELSE LET t == Head(rows)
         IN (IF t.account # a THEN 0
             ELSE IF t.type = "INCOME" THEN t.amount ELSE 0 - t.amount)
            + TransactionEffect(a, Tail(rows))

RECURSIVE TotalFees(_)
TotalFees(rows) ==
    IF rows = <<>> THEN 0 ELSE Head(rows).fee + TotalFees(Tail(rows))

C2_NoDoubleSpend ==
    \A r1, r2 \in Conns :
        (/\ r1 # r2
         /\ reqs[r1].pc \in {"insert", "commit"}
         /\ reqs[r2].pc \in {"insert", "commit"}
         /\ reqs[r1].from = reqs[r2].from
         /\ reqs[r1].readBal = reqs[r2].readBal)
        => reqs[r1].amount + reqs[r1].fee + reqs[r2].amount + reqs[r2].fee
              <= reqs[r1].readBal

\* C3: every successful Create Transfer decreases the source balance by
\* exactly amount + fee, increases the destination balance by exactly amount
\* and records one transfer row carrying that amount and fee.
C3_ExactDebitCredit ==
    [][\A r \in Conns :
          (reqs[r].pc = "commit" /\ reqs'[r].pc = "reread")
          => /\ balance'[reqs[r].from]
                   = balance[reqs[r].from] - (reqs[r].amount + reqs[r].fee)
             /\ balance'[reqs[r].to] = balance[reqs[r].to] + reqs[r].amount
             /\ transfers' = Append(transfers,
                                [from |-> reqs[r].from, to |-> reqs[r].to,
                                 amount |-> reqs[r].amount,
                                 fee |-> reqs[r].fee])]_vars

\* C4: a Create Transfer whose source balance is below amount + fee is
\* refused, with the insufficient-balance error when that is the only
\* precondition it misses; it is never admitted to the insert, and the step
\* that refuses it changes no balance and adds no transfer row.
C4_InsufficientRejected ==
    /\ [](\A r \in InFlight : 4 \notin reqs[r].violated)
    /\ []((response.kind = "transfer" /\ 4 \in response.violated)
             => response.outcome \in Rejections)
    /\ []((response.kind = "transfer" /\ response.violated = {4})
             => response.outcome = "insufficient")
    /\ [][(RefusedStep /\ 4 \in response'.violated)
             => UNCHANGED <<balance, transfers, transactions>>]_vars

\* the scenario of the contract: balance 100, amount 96, fee 5 is refused
\* and the balances are the opening ones
C4_Witness ==
    /\ response = Response("transfer", "insufficient", {4})
    /\ balance = InitBalance
    /\ transfers = <<>>

\* C5: an account whose type does not allow a negative balance never has a
\* committed balance below zero.
C5_NoNegativeBalance ==
    \A a \in Accounts : ~AllowsNegative[a] => balance[a] >= 0

\* C6: balance conservation. The sum of all balances equals the opening sum
\* minus the fees of the committed transfers; the amounts moved cancel.
C6_Conservation ==
    SumOver(balance, Accounts)
        = SumOver(InitBalance, Accounts) - TotalFees(transfers)

\* two transfers are committed, at least one of them with a fee
C6_Witness ==
    /\ Len(transfers) >= 2
    /\ \E i \in 1..Len(transfers) : transfers[i].fee > 0

\* C7: each account's balance equals its opening balance plus the signed
\* effects of all committed transactions (+ income, - expense) and
\* transfers (- (amount + fee) as source, + amount as destination).
C7_BalanceIsLedgerSum ==
    \A a \in Accounts :
        balance[a] = InitBalance[a] + TransferEffect(a, transfers)
                                    + TransactionEffect(a, transactions)

\* C8: a Create Transfer whose source account does not exist or is not the
\* caller's is always refused and never admitted to the insert, so it
\* creates no transfer row and changes no balance.
C8_SourceOwnership ==
    /\ \A r \in InFlight : 2 \notin reqs[r].violated
    /\ (response.kind = "transfer" /\ 2 \in response.violated)
          => response.outcome \in Rejections

\* a caller was refused a transfer from an account of another user
C8_Witness ==
    /\ response.kind = "transfer"
    /\ response.outcome = "forbidden"
    /\ 2 \in response.violated

\* C9: a Create Transfer in which the recipient is the caller, or the source
\* is the derived destination account, is refused before the balance is
\* compared and is never admitted; no committed transfer has the same owner
\* or the same account on both sides.
C9_NoSelfTransfer ==
    /\ \A r \in InFlight : 1 \notin reqs[r].violated
    /\ (response.kind = "transfer" /\ 1 \in response.violated)
          => response.outcome \in EarlyRejections
    /\ \A i \in 1..Len(transfers) :
          /\ transfers[i].from # transfers[i].to
          /\ AccountOwner[transfers[i].from] # AccountOwner[transfers[i].to]

\* the failures the contract assigns to each precondition
FailureOf(n) ==
    CASE n = 1 -> {"self", "same_account"}
      [] n = 2 -> {"source_not_found", "forbidden"}
      [] n = 3 -> {"no_recipient"}
      [] n = 4 -> {"insufficient"}

\* C10: a Create Transfer that misses several preconditions reports the
\* failure of the first one it misses in the order self-transfer, source
\* missing or not the caller's, recipient without account, insufficient
\* balance.
C10_FirstViolationReported ==
    (response.kind = "transfer" /\ response.violated # {})
       => response.outcome \in FailureOf(MinOf(response.violated))

\* C11: the destination of every Create Transfer is the earliest-created of
\* the recipient's active accounts: no request is admitted with, and no
\* committed transfer credits, another account, and a request whose recipient
\* has no active account is refused.
C11_ActiveDestination ==
    /\ \A r \in InFlight :
          reqs[r].to = ActiveRecipientAccount(AccountOwner[reqs[r].to])
    /\ \A i \in 1..Len(transfers) :
          transfers[i].to = ActiveRecipientAccount(AccountOwner[transfers[i].to])
    /\ (response.kind = "transfer" /\ 3 \in response.violated)
          => response.outcome \in Rejections

\* a request was issued and answered by Create Transaction in this step
TransactionStep == started' = started + 1 /\ reqs' = reqs
                   /\ response'.kind = "transaction"

\* the transaction rows in the store, committed or inserted in a transaction
\* still open on a connection
RECURSIVE PendingTxns(_)
PendingTxns(C) ==
    IF C = {} THEN 0
    ELSE LET c == CHOOSE c \in C : TRUE
         IN Len(conns[c].pTxns) + PendingTxns(C \ {c})
InsertedTxns == Len(transactions) + PendingTxns(Conns)

\* C12: Create Transaction answers 201 and inserts a row only when the
\* account exists and belongs to the caller and the category is a system
\* category or the caller's; every other request is answered 404 (account
\* or category not found), or 500 when the store fails, and the step that
\* answers it inserts no row and changes nothing.
C12_TransactionGuard ==
    /\ [](response.kind = "transaction"
            => /\ response.outcome = "txn_created" => response.violated = {}
               /\ response.outcome \in {"txn_created", "txn_error"}
                     \/ (/\ response.violated # {}
                         /\ response.outcome \in {"account_not_found",
                                                  "category_not_found"}))
    /\ [][(TransactionStep /\ response'.violated # {})
            => UNCHANGED <<balance, transfers, transactions, conns, reqs>>]_vars
    /\ [][(TransactionStep /\ InsertedTxns' # InsertedTxns)
            => response'.violated = {}]_vars

\* a row was inserted for the caller's own account and a system or own
\* category, and the last request, naming another user's category or a
\* missing one on an own account, was answered 404
C12_Witness ==
    /\ Len(transactions) = 1
    /\ response = Response("transaction", "category_not_found", {2})

C27_ReleasedWithoutTransaction ==
    /\ [](\A c \in Conns : ~conns[c].busy => ~conns[c].inTx)
    /\ [][TransactionStep /\ response'.outcome = "txn_created"
            => Len(transactions') = Len(transactions) + 1]_vars

\* C28: a Create Transfer request answers success=true exactly when its
\* transfer has been committed, also when a statement after COMMIT fails;
\* and a request refused by a precondition persists no row and changes no
\* balance.
C28_OutcomeMatchesState ==
    /\ [][\A c \in Conns :
             reqs[c].pc # "idle" /\ reqs'[c].pc = "idle"
               => (response'.outcome = "created" <=> reqs[c].pc = "reread")]_vars
    /\ [][started' # started /\ reqs' = reqs /\ response'.kind = "transfer"
            => balance' = balance /\ transfers' = transfers]_vars

(* ======================= properties of receipts ======================== *)
\* C14: every receipt is referenced by at most one transaction row, whatever
\* the order and interleaving of the create-transaction-from-receipt calls,
\* and no row is inserted for a receipt whose transaction_created flag is set.
C14_OneTransactionPerReceipt ==
    /\ [](\A r \in Receipts :
            Cardinality({i \in 1..Len(linked) : linked[i].receipt = r}) <= 1)
    /\ [][Len(linked') > Len(linked)
            => ~rcptFlag[linked'[Len(linked')].receipt]]_vars

\* C25: every transaction created from a receipt is recorded against an
\* account owned by the user who created it.
C25_ReceiptAccountOwned ==
    \A i \in 1..Len(linked) : AccountOwner[linked[i].account] = linked[i].user

\* the expense total a budget or report derives from the rows of a sequence
RECURSIVE ExpenseTotal(_)
ExpenseTotal(rows) ==
    IF rows = <<>> THEN 0
    ELSE (IF Head(rows).type = "EXPENSE" THEN Head(rows).amount ELSE 0)
         + ExpenseTotal(Tail(rows))

\* C26: every persisted transaction row, from Create Transaction or from a
\* receipt, stores a positive amount, so the spent total derived from the
\* expense rows is never negative.
C26_CanonicalAmount ==
    /\ \A i \in 1..Len(transactions) : transactions[i].amount > 0
    /\ \A i \in 1..Len(linked) : linked[i].amount > 0
    /\ ExpenseTotal(transactions) + ExpenseTotal(linked) >= 0

\* C30: when no create-transaction-from-receipt call is in flight, a
\* receipt's transaction_created flag is TRUE exactly when a transaction row
\* references the receipt.
C30_FlagMatchesRows ==
    (\A k \in ReceiptCalls : rcptReqs[k].pc = "idle")
       => \A r \in Receipts :
             rcptFlag[r] <=> (\E i \in 1..Len(linked) : linked[i].receipt = r)

(* ======================== properties of budgets ======================== *)
\* the allocations stored for budget b, as the request would name them
AllocationsOf(b) ==
    LET IsOf(bc) == bc.budget = b
        rows == SelectSeq(budgetCats, IsOf)
    IN [i \in 1..Len(rows) |->
          [categoryId |-> rows[i].category,
           allocatedAmount |-> rows[i].allocated]]

\* a Create Budget request was issued and refused in this step
BudgetRefusedStep == bCalls' = bCalls + 1 /\ bReq' = bReq
                     /\ bResp'.kind = "create"

\* C15: a Create Budget whose allocations sum to more than totalLimit is
\* refused with a 400, is never admitted to the statements that write, and
\* the step refusing it leaves budgets and budget_categories as they were;
\* the allocations stored for a budget never sum to more than its limit.
C15_AllocationWithinLimit ==
    /\ [](bReq.pc # "idle" => TotalAllocated(bReq.categories) <= bReq.limit)
    /\ []((bResp.kind = "create" /\ bResp.total > bResp.limit)
            => bResp.outcome \in {"invalid_dates", "allocation_exceeds"})
    /\ [][(BudgetRefusedStep /\ bResp'.total > bResp'.limit)
            => UNCHANGED <<budgets, budgetCats>>]_vars
    /\ [](\A b \in 1..Len(budgets) :
            TotalAllocated(AllocationsOf(b)) <= budgets[b].limit)

\* a budget of limit 500 holds allocations of 400, and the last request,
\* with allocations of 200 and 320, was refused
C15_Witness ==
    /\ bResp.kind = "create"
    /\ bResp.outcome = "allocation_exceeds"
    /\ bResp.total = 520
    /\ Len(budgets) = 1
    /\ TotalAllocated(AllocationsOf(1)) = 400

\* C16: Create Budget is all-or-nothing. Once the request that created a
\* budget row is over, the budget has all the positive allocations the
\* request asked for.
C16_BudgetAllOrNothing ==
    \A b \in 1..Len(budgets) :
        bReq.budget # b => AllocationsOf(b) = budgets[b].requested

\* C17: a Create Budget that reaches the category check is refused with
\* 'categories not found' exactly when one of the category ids it names is
\* not in the category store, whether or not the list repeats an id.
C17_MissingCategoryRejection ==
    /\ bReq.pc # "idle"
          => \A i \in 1..Len(bReq.categories) :
                bReq.categories[i].categoryId \in Categories
    /\ (bResp.kind = "create" /\ bResp.missing)
          => bResp.outcome \in {"invalid_dates", "allocation_exceeds",
                                "categories_not_found"}
    /\ (bResp.kind = "create" /\ bResp.outcome = "categories_not_found")
          => bResp.missing

\* C18: every utilization percentage in a budget detail or analytics
\* response is a number, and none was computed from an allocated amount 0.
C18_UtilizationGuarded ==
    (bResp.kind \in {"detail", "analytics"} /\ bResp.outcome = "ok")
       => /\ \A i \in 1..Len(bResp.categories) :
                /\ bResp.categories[i].allocatedAmount # Num(0)
                /\ bResp.categories[i].utilizationPercentage.kind = "number"
          /\ bResp.kind = "detail"
                => bResp.utilizationPercentage.kind = "number"

(* ======================== properties of reports ======================== *)
\* the band scores as the contract tabulates them
BalanceBand(b) ==
    CASE b > 10000 -> 30
      [] b \in 5001..10000 -> 20
      [] b \in 1001..5000 -> 10
      [] OTHER -> 0

\* the ratio expenses / income lies below num / 10
RatioBelow(income, expenses, num) == 10 * expenses < num * income

RatioBand(income, expenses) ==
    CASE income <= 0 -> 0
      [] income > 0 /\ RatioBelow(income, expenses, 5) -> 30
      [] income > 0 /\ ~RatioBelow(income, expenses, 5)
                    /\ RatioBelow(income, expenses, 7) -> 20
      [] income > 0 /\ ~RatioBelow(income, expenses, 7)
                    /\ RatioBelow(income, expenses, 9) -> 10
      [] OTHER -> 0

C20_SummaryTotals ==
    sumResp.kind = "summary" /\ ~sumResp.failed
       => LET u == sumResp.caller
              IsOf(t) == AccountOwner[t.account] = u
              rows == SelectSeq(transactions, IsOf)
              own == {a \in Accounts : AccountOwner[a] = u /\ AccountActive[a]}
          IN /\ sumResp.totalBalance = SumOver(balance, own)
             /\ sumResp.totalIncome = SumOfType(rows, "INCOME")
             /\ sumResp.totalExpenses = SumOfType(rows, "EXPENSE")
             /\ sumResp.netWorth
                   = SumOfType(rows, "INCOME") - SumOfType(rows, "EXPENSE")
             /\ sumResp.accountsCount = Cardinality(own)
             /\ sumResp.transactionsCount = Len(rows)
             /\ sumResp.activeBudgetsCount
                   = Cardinality({b \in 1..Len(budgets) : budgets[b].owner = u})

(* ======================= properties of the reports ===================== *)
\* the rows of user u's accounts dated in month m, and the months that
\* have such rows
RowsOfUserIn(u, m) ==
    LET IsIn(t) == AccountOwner[t.account] = u /\ t.month = m
    IN SelectSeq(transactions, IsIn)

MonthsOfUser(u) == {m \in Months : RowsOfUserIn(u, m) # <<>>}

\* the categories with the highest expense total of user u in month m
HighestSpending(u, m) ==
    LET groups == CategoryGroups(RowsOfType(RowsOfUserIn(u, m), "EXPENSE"))
    IN {g.category : g \in {h \in groups : \A k \in groups :
                                               k.total <= h.total}}

\* a spending report answered the same request as the one before it
SameSpendingRequest ==
    /\ spendResp.kind \in {"monthly", "category"}
    /\ spendResp'.kind = spendResp.kind
    /\ "caller" \in DOMAIN spendResp /\ "caller" \in DOMAIN spendResp'
    /\ spendResp'.caller = spendResp.caller
    /\ spendResp.kind = "monthly" => spendResp'.months = spendResp.months
    /\ spendResp.kind = "category" =>
          /\ spendResp'.type = spendResp.type
          /\ spendResp'.startDate = spendResp.startDate
          /\ spendResp'.endDate = spendResp.endDate
          /\ spendResp'.limit = spendResp.limit

\* C21: Monthly spending reports, for each reported calendar month of the
\* caller, exactly one entry, whose top category is a category with the
\* highest expense total of that month whenever the month has expenses; and
\* a repeated call on the same ledger returns the same top categories.
C21_OneTopCategory ==
    /\ [](spendResp.kind = "monthly" /\ ~spendResp.failed
            => LET u == spendResp.caller
                   expected == Limit(Descending(MonthsOfUser(u)),
                                     spendResp.months)
               IN /\ Len(spendResp.data) = Len(expected)
                  /\ \A i \in 1..Len(expected) :
                        /\ spendResp.data[i].month = expected[i]
                        /\ HighestSpending(u, expected[i]) # {}
                             => spendResp.data[i].topCategory
                                  \in HighestSpending(u, expected[i]))
    /\ [][SameSpendingRequest /\ spendResp.kind = "monthly"
             /\ transactions' = transactions
            => spendResp' = spendResp]_vars

\* a Summary answered the same caller as the one before it, and no query of
\* either failed
SameSummaryRequest ==
    /\ sumResp.kind = "summary" /\ sumResp'.kind = "summary"
    /\ ~sumResp.failed /\ ~sumResp'.failed
    /\ sumResp'.caller = sumResp.caller

\* the state the reports read
ReportedState == <<balance, transfers, transactions, budgets, budgetCats>>

C24_FailureReported ==
    /\ sumResp.kind = "summary" /\ sumResp.failed
          => ~sumResp.success /\ "message" \in DOMAIN sumResp
    /\ spendResp.kind = "monthly" /\ spendResp.failed
          => ~spendResp.success /\ "message" \in DOMAIN spendResp
    /\ spendResp.kind = "error"
          => ~spendResp.success /\ "message" \in DOMAIN spendResp

(* ================== properties of identity resolution ================== *)
\* the data store can be reached and queried for the request answered last
StoreAvailable == authResp.connects /\ authResp.queries

\* C23: identity resolution ends a request in exactly one of: identity
\* attached and the handler runs (valid token of an active user, store
\* available); 401 for a malformed or expired token and for a missing token
\* or an absent or inactive user; 500 when the store cannot be reached or
\* queried for the lookup.  Every failure sends a response and does not run
\* the handler.
C23_IdentityOutcomes ==
    authResp.kind = "auth"
       => LET token == authResp.token
              known == ActiveUserRows(token.user_id) # {}
          IN /\ authResp.next <=> (token.kind = "valid" /\ known
                                     /\ StoreAvailable)
             /\ ~authResp.next
                   => /\ authResp.sent
                      /\ ~authResp.success
                      /\ authResp.status \in {401, 500}
             /\ authResp.status = 500 => ~StoreAvailable
             /\ token.kind = "valid" /\ ~StoreAvailable
                   => authResp.status = 500
             /\ token.kind = "missing" => authResp.status = 401
             /\ token.kind \in {"malformed", "expired"} /\ StoreAvailable
                   => authResp.status = 401
             /\ token.kind = "valid" /\ ~known /\ StoreAvailable
                   => authResp.status = 401

\* C29: a data query on a pooled connection runs with the connection's
\* app.current_user_id unset or equal to the user making the request.
C29_AmbientIdentity ==
    lastQuery.kind = "query"
       => lastQuery.ambient \in {Null, lastQuery.by}

====
